---- MODULE Spec2Model ----
(***************************************************************************)
(* Model of the peripheral drivers of wro2024-fe-ZEN:                      *)
(*   - Motor            (dc_motor.cpp, src/unnamed/part_001)               *)
(*   - UltrasonicSensor (src/src/demo/ultrasonic_sensor.cpp)               *)
(* dc_motor.h and ultrasonic_sensor.h are not part of the sources; the     *)
(* numeric limits come from the documentation comments of the .cpp files   *)
(* and from the predecessor header L298N.h (src/unnamed/part_000).         *)
(***************************************************************************)
EXTENDS Integers, Sequences, FiniteSets, TLC

----------------------------------------------------------------------------
(* Program constants *)

\* "@param speed ... from -100 (backward) to 100 (forward)"
MIN_SPEED == -100

MAX_SPEED == 100

\* "@param acceleration ... from 0 (no acceleration) to 100 (maximum acceleration)"
MIN_ACCELERATION == 0

MAX_ACCELERATION == 100

\* update interval used at MIN_ACCELERATION (L298N.h: MIN_UPDATING_INTERVAL)
MIN_UPDATE_DELAY == 50000

\* update interval used at MAX_ACCELERATION (L298N.h: MAX_UPDATING_INTERVAL)
MAX_UPDATE_DELAY == 100

\* constrain(distance_, 0, 400)
MIN_DISTANCE == 0

MAX_DISTANCE == 400

\* speed of sound in m/s used by computeDistance
kSpeedOfSound == 343

\* default timeout of pulseInLong, in microseconds
PulseTimeout == 1000000

----------------------------------------------------------------------------
(* Bounds of the model *)

\* the polling loop lets at most this many milliseconds pass between two
\* qualifying updates
MaxElapsed == 200

\* the microsecond timer of the sensor is tracked up to this value; every
\* larger value behaves the same (it is only compared with 2 and 10)
MaxElapsedUs == 11

\* qualifying ticks counted by the ramp observer beyond the end of a ramp
MaxExtraTicks == 2

----------------------------------------------------------------------------
(* Input domains *)

Motors == {"A", "B"}

\* int8_t arguments of setSpeed, including values outside [-100,100]
SpeedInputs == {-128, -2, 0, 3, 127}

\* int8_t arguments of setSpeed used with the ramp observer
RampSpeedInputs == {-3, 0, 2, 50}

\* int8_t arguments of setSpeed used with two motors
PairSpeedInputs == {-1, 2}

\* uint8_t arguments of setAcceleration, including values above 100
AccelerationInputs == {0, 100, 255}

\* every uint8_t argument of setAcceleration
AllAccelerationInputs == 0 .. 255

\* the loop period of the polling loop, in milliseconds
ClockSteps == {MAX_UPDATE_DELAY}

----------------------------------------------------------------------------
(* Arithmetic helpers *)

Abs(x) == IF x < 0 THEN -x ELSE x

Min2(a, b) == IF a < b THEN a ELSE b

Max2(a, b) == IF a > b THEN a ELSE b

\* C++ integer division truncates toward zero
TruncDiv(a, b) == IF (a >= 0) = (b > 0) THEN Abs(a) \div Abs(b) ELSE -(Abs(a) \div Abs(b))

\* two's complement wrap of an int8_t
Int8(x) == ((x + 128) % 256) - 128

\* a bool return value as the integer it converts to
BoolRet(b) == IF b THEN 1 ELSE 0

\* Arduino constrain(amt, low, high)
constrain(amt, low, high) == IF amt < low THEN low ELSE IF amt > high THEN high ELSE amt

\* Arduino map(x, in_min, in_max, out_min, out_max), long arithmetic
map(x, in_min, in_max, out_min, out_max) ==
    TruncDiv((x - in_min) * (out_max - out_min), in_max - in_min) + out_min

----------------------------------------------------------------------------
(* State *)

VARIABLES
    enabled_,          \* Motor::enabled_, per instance
    status_,           \* Motor::status_, per instance
    current_speed_,    \* Motor::current_speed_, per instance
    setpoint_speed_,   \* Motor::setpoint_speed_, per instance
    acceleration_,     \* Motor::acceleration_, per instance
    update_delay_,     \* Motor::update_delay_, per instance
    forward_duty,      \* duty cycle last written to forwardPwm, per instance
    backward_duty,     \* duty cycle last written to backwardPwm, per instance
    elapsed_ms,        \* millis() - last_ms; last_ms is one static for all instances
    mode_,             \* UltrasonicSensor::mode_
    sensor_status_,    \* UltrasonicSensor::status_
    distance_,         \* UltrasonicSensor::distance_
    trigger_level,     \* level last written to trigger_pin_
    elapsed_us,        \* micros() - last_us (static of computeDistance)
    io,                \* pin operations performed by the last sensor call
    last_op,           \* the call that returned last, its argument and return value
    ramp_from,         \* observer: current_speed_ when the setpoint was last set
    ramp_ticks,        \* observer: qualifying ticks since the setpoint was last set
    delay_acc,         \* observer: acceleration_ read by the last update()
    requested          \* observer: startMeasurement() called since the last measurement

motorVars == <<enabled_, status_, current_speed_, setpoint_speed_, acceleration_,
               update_delay_, forward_duty, backward_duty, elapsed_ms>>

sensorVars == <<mode_, sensor_status_, distance_, trigger_level, elapsed_us, io>>

observerVars == <<ramp_from, ramp_ticks, delay_acc, requested>>

vars == <<motorVars, sensorVars, last_op, observerVars>>

----------------------------------------------------------------------------
(* Motor *)

\* Motor::isUpdating
isUpdating(m) == status_[m]

\* Motor::getSpeed
getSpeed(m) == current_speed_[m]

\* Motor::setSpeed, the value stored in setpoint_speed_
SetpointOf_unclamped(speed) == speed

SetpointOf(speed) == constrain(speed, MIN_SPEED, MAX_SPEED)

\* Motor::setAcceleration, the value stored in acceleration_
AccelerationOf_unclamped(a) == a

AccelerationOf(a) == constrain(a, MIN_ACCELERATION, MAX_ACCELERATION)

\* Motor::update, the value stored in update_delay_
UpdateDelayOf_swapped(a) ==
    map(a, MIN_ACCELERATION, MAX_ACCELERATION, MAX_UPDATE_DELAY, MIN_UPDATE_DELAY)

UpdateDelayOf(a) ==
    map(a, MIN_ACCELERATION, MAX_ACCELERATION, MIN_UPDATE_DELAY, MAX_UPDATE_DELAY)

\* Motor::update, the gate "millis() - last_ms > update_delay_"
Qualifies_enabled(m) == enabled_[m] /\ elapsed_ms > UpdateDelayOf(acceleration_[m])

Qualifies(m) == elapsed_ms > UpdateDelayOf(acceleration_[m])

\* Motor::update, "last_ms = millis()": the time elapsed since last_ms afterwards
ElapsedAfterTick_stale(elapsed) == elapsed

ElapsedAfterTick(elapsed) == 0

\* Motor::update, the ramp step applied to current_speed_
RampStep_double(cur, setpoint) ==
    IF setpoint > cur THEN Int8(cur + 2)
    ELSE IF setpoint < cur THEN Int8(cur - 2)
    ELSE cur

RampStep(cur, setpoint) ==
    IF setpoint > cur THEN Int8(cur + 1)
    ELSE IF setpoint < cur THEN Int8(cur - 1)
    ELSE cur

\* Motor::update, the duty cycles written for a speed
ForwardDutyOf_abs(speed) == Abs(speed)

ForwardDutyOf(speed) == IF speed < 0 THEN 0 ELSE speed

BackwardDutyOf_noAbs(speed) == IF speed < 0 THEN speed ELSE 0

BackwardDutyOf(speed) == IF speed < 0 THEN Abs(speed) ELSE 0

\* state after the constructor: only the PwmOut members are initialised by
\* it, the other members of the (static) object are zero
MotorConstructed ==
    /\ enabled_ = [m \in Motors |-> FALSE]
    /\ status_ = [m \in Motors |-> FALSE]
    /\ current_speed_ = [m \in Motors |-> 0]
    /\ setpoint_speed_ = [m \in Motors |-> 0]
    /\ acceleration_ = [m \in Motors |-> 0]
    /\ update_delay_ = [m \in Motors |-> 0]
    /\ forward_duty = [m \in Motors |-> 0]
    /\ backward_duty = [m \in Motors |-> 0]
    /\ elapsed_ms = 0

\* Motor::init
Motor_init(m) ==
    /\ acceleration_' = [acceleration_ EXCEPT ![m] = MAX_ACCELERATION]
    /\ forward_duty' = [forward_duty EXCEPT ![m] = 0]
    /\ backward_duty' = [backward_duty EXCEPT ![m] = 0]
    /\ enabled_' = [enabled_ EXCEPT ![m] = TRUE]
    /\ last_op' = [op |-> "init", m |-> m, ret |-> BoolRet(enabled_'[m]), qualified |-> FALSE, arg |-> 0]
    /\ UNCHANGED <<status_, current_speed_, setpoint_speed_, update_delay_, elapsed_ms>>
    /\ UNCHANGED sensorVars

\* Motor::update
Motor_update(m) ==
    /\ update_delay_' = [update_delay_ EXCEPT ![m] = UpdateDelayOf(acceleration_[m])]
    /\ IF Qualifies(m)
       THEN /\ elapsed_ms' = ElapsedAfterTick(elapsed_ms)
            /\ status_' = [status_ EXCEPT ![m] = (setpoint_speed_[m] # current_speed_[m])]
            /\ current_speed_' = [current_speed_ EXCEPT
                                    ![m] = RampStep(current_speed_[m], setpoint_speed_[m])]
            /\ forward_duty' = [forward_duty EXCEPT
                                    ![m] = ForwardDutyOf(current_speed_'[m])]
            /\ backward_duty' = [backward_duty EXCEPT
                                    ![m] = BackwardDutyOf(current_speed_'[m])]
       ELSE UNCHANGED <<elapsed_ms, status_, current_speed_, forward_duty, backward_duty>>
    /\ last_op' = [op |-> "update", m |-> m, ret |-> 0, qualified |-> Qualifies(m), arg |-> 0]
    /\ UNCHANGED <<enabled_, setpoint_speed_, acceleration_>>
    /\ UNCHANGED sensorVars

\* Motor::setSpeed
Motor_setSpeed(m, speed) ==
    /\ setpoint_speed_' = [setpoint_speed_ EXCEPT ![m] = SetpointOf(speed)]
    /\ last_op' = [op |-> "setSpeed", m |-> m, ret |-> 0, qualified |-> FALSE, arg |-> speed]
    /\ UNCHANGED <<enabled_, status_, current_speed_, acceleration_, update_delay_,
                   forward_duty, backward_duty, elapsed_ms>>
    /\ UNCHANGED sensorVars

\* Motor::setAcceleration
Motor_setAcceleration(m, a) ==
    /\ acceleration_' = [acceleration_ EXCEPT ![m] = AccelerationOf(a)]
    /\ last_op' = [op |-> "setAcceleration", m |-> m, ret |-> 0, qualified |-> FALSE, arg |-> a]
    /\ UNCHANGED <<enabled_, status_, current_speed_, setpoint_speed_, update_delay_,
                   forward_duty, backward_duty, elapsed_ms>>
    /\ UNCHANGED sensorVars

\* Motor::stop
Motor_stop(m) ==
    /\ acceleration_' = [acceleration_ EXCEPT ![m] = MAX_ACCELERATION]
    /\ current_speed_' = [current_speed_ EXCEPT ![m] = 0]
    /\ setpoint_speed_' = [setpoint_speed_ EXCEPT ![m] = 0]
    /\ enabled_' = [enabled_ EXCEPT ![m] = FALSE]
    /\ last_op' = [op |-> "stop", m |-> m, ret |-> BoolRet(enabled_'[m]), qualified |-> FALSE, arg |-> 0]
    /\ UNCHANGED <<status_, update_delay_, forward_duty, backward_duty, elapsed_ms>>
    /\ UNCHANGED sensorVars

\* millis() advances between two calls of the polling loop
AdvanceMillis(d) ==
    /\ elapsed_ms + d <= MaxElapsed
    /\ elapsed_ms' = elapsed_ms + d
    /\ last_op' = [op |-> "loop", m |-> "A", ret |-> 0, qualified |-> FALSE, arg |-> 0]
    /\ UNCHANGED <<enabled_, status_, current_speed_, setpoint_speed_, acceleration_,
                   update_delay_, forward_duty, backward_duty>>
    /\ UNCHANGED sensorVars

----------------------------------------------------------------------------
(* UltrasonicSensor *)

SonarModes == {"MANUAL", "AUTOMATIC"}

\* echo pulse durations returned by pulseInLong, in microseconds (0: timeout)
PulseInputs == {0, 59, 5831, 23323, 23383, 29155, 1000000}

\* time that passes between two reads of micros() inside computeDistance
IntraDelays == {0, MaxElapsedUs}

\* time that passes between two calls of the polling loop, in microseconds
MicroSteps == {1, 2}

\* the microsecond timer, tracked up to MaxElapsedUs
SatUs(t) == Min2(t, MaxElapsedUs)

\* pulseInLong blocks for the pulse, or for its timeout when it returns 0
BlockedFor(pulse_time) == IF pulse_time = 0 THEN PulseTimeout ELSE pulse_time

\* UltrasonicSensor::computeDistance, the value stored in distance_ (uint16_t)
DistanceOf(pulse_time) == ((pulse_time * kSpeedOfSound) \div 20000) % 65536

\* UltrasonicSensor::getDistance, the value stored and returned
ClampDistance_noUpper(d) == IF d < MIN_DISTANCE THEN MIN_DISTANCE ELSE d

ClampDistance(d) == constrain(d, MIN_DISTANCE, MAX_DISTANCE)

\* UltrasonicSensor::isUpdating
Sensor_isUpdating == sensor_status_

\* state after the constructor (mode_ from the argument, MANUAL by default)
SensorConstructed(mode) ==
    /\ mode_ = mode
    /\ sensor_status_ = FALSE
    /\ distance_ = 0
    /\ trigger_level = "LOW"
    /\ elapsed_us = 0
    /\ io = <<>>

\* UltrasonicSensor::computeDistance with the echo pulse pulse_time; d1 and
\* d2 are the times that pass before the second and the third read of micros()
computeDistance(pulse_time, d1, d2) ==
    LET first == elapsed_us > 2
        e1 == SatUs((IF first THEN 0 ELSE elapsed_us) + d1)
        second == e1 > 10
        e2 == SatUs((IF second THEN 0 ELSE e1) + d2)
    IN  /\ io' = <<"LOW">> \o (IF first THEN <<"HIGH">> ELSE <<>>)
                           \o (IF second THEN <<"LOW">> ELSE <<>>)
                           \o <<"ECHO">>
        /\ trigger_level' = IF second THEN "LOW" ELSE IF first THEN "HIGH" ELSE "LOW"
        /\ elapsed_us' = SatUs(e2 + BlockedFor(pulse_time))
        /\ distance_' = DistanceOf(pulse_time)

\* UltrasonicSensor::update
Sensor_update_keepStatus(pulse_time, d1, d2) ==
    /\ IF mode_ = "AUTOMATIC" \/ sensor_status_
       THEN computeDistance(pulse_time, d1, d2)
       ELSE /\ io' = <<>>
            /\ UNCHANGED <<distance_, trigger_level, elapsed_us>>
    /\ last_op' = [op |-> "Sensor.update", m |-> "S", ret |-> 0,
                   qualified |-> (mode_ = "AUTOMATIC" \/ sensor_status_), arg |-> 0]
    /\ UNCHANGED <<mode_, sensor_status_>>
    /\ UNCHANGED motorVars

Sensor_update(pulse_time, d1, d2) ==
    /\ IF mode_ = "AUTOMATIC"
       THEN /\ computeDistance(pulse_time, d1, d2)
            /\ UNCHANGED sensor_status_
       ELSE IF sensor_status_
            THEN /\ computeDistance(pulse_time, d1, d2)
                 /\ sensor_status_' = FALSE
            ELSE /\ io' = <<>>
                 /\ UNCHANGED <<sensor_status_, distance_, trigger_level, elapsed_us>>
    /\ last_op' = [op |-> "Sensor.update", m |-> "S", ret |-> 0,
                   qualified |-> (mode_ = "AUTOMATIC" \/ sensor_status_), arg |-> 0]
    /\ UNCHANGED mode_
    /\ UNCHANGED motorVars

\* UltrasonicSensor::setMode
Sensor_setMode(mode) ==
    /\ mode_' = mode
    /\ io' = <<>>
    /\ last_op' = [op |-> "Sensor.setMode", m |-> "S", ret |-> 0, qualified |-> FALSE, arg |-> 0]
    /\ UNCHANGED <<sensor_status_, distance_, trigger_level, elapsed_us>>
    /\ UNCHANGED motorVars

\* UltrasonicSensor::startMeasurement
Sensor_startMeasurement_unguarded ==
    /\ sensor_status_' = TRUE
    /\ io' = <<>>
    /\ last_op' = [op |-> "Sensor.startMeasurement", m |-> "S", ret |-> 0,
                   qualified |-> FALSE, arg |-> 0]
    /\ UNCHANGED <<mode_, distance_, trigger_level, elapsed_us>>
    /\ UNCHANGED motorVars

Sensor_startMeasurement ==
    /\ sensor_status_' = IF mode_ = "MANUAL" THEN TRUE ELSE sensor_status_
    /\ io' = <<>>
    /\ last_op' = [op |-> "Sensor.startMeasurement", m |-> "S", ret |-> 0,
                   qualified |-> FALSE, arg |-> 0]
    /\ UNCHANGED <<mode_, distance_, trigger_level, elapsed_us>>
    /\ UNCHANGED motorVars

\* UltrasonicSensor::getDistance
Sensor_getDistance ==
    /\ distance_' = ClampDistance(distance_)
    /\ io' = <<>>
    /\ last_op' = [op |-> "Sensor.getDistance", m |-> "S", ret |-> distance_',
                   qualified |-> FALSE, arg |-> 0]
    /\ UNCHANGED <<mode_, sensor_status_, trigger_level, elapsed_us>>
    /\ UNCHANGED motorVars

\* micros() advances between two calls of the polling loop
AdvanceMicros(d) ==
    /\ elapsed_us < MaxElapsedUs
    /\ elapsed_us' = SatUs(elapsed_us + d)
    /\ last_op' = [op |-> "loop", m |-> "S", ret |-> 0, qualified |-> FALSE, arg |-> 0]
    /\ UNCHANGED <<mode_, sensor_status_, distance_, trigger_level, io>>
    /\ UNCHANGED motorVars

----------------------------------------------------------------------------
(* Observers: they record what happened, the drivers never read them *)

\* the acceleration_ that the last update() of each motor mapped to a delay
ObserveDelay ==
    delay_acc' = IF last_op'.op = "update"
                 THEN [delay_acc EXCEPT ![last_op'.m] = acceleration_[last_op'.m]]
                 ELSE delay_acc

\* the speed at which the present setpoint was set, and the qualifying ticks
\* since then (counted up to MaxExtraTicks past the length of the ramp)
ObserveRamp ==
    LET m == last_op'.m
    IN  IF last_op'.op \in {"setSpeed", "stop"}
        THEN /\ ramp_from' = [ramp_from EXCEPT ![m] = current_speed_'[m]]
             /\ ramp_ticks' = [ramp_ticks EXCEPT ![m] = 0]
        ELSE IF last_op'.op = "update" /\ last_op'.qualified
        THEN /\ ramp_ticks' = [ramp_ticks EXCEPT ![m] =
                    Min2(@ + 1, Abs(setpoint_speed_[m] - ramp_from[m]) + MaxExtraTicks)]
             /\ UNCHANGED ramp_from
        ELSE UNCHANGED <<ramp_from, ramp_ticks>>

\* whether startMeasurement() was called since the last completed
\* trigger/measure cycle
ObserveSensor ==
    requested' = IF last_op'.op = "Sensor.startMeasurement" THEN TRUE
                 ELSE IF last_op'.op = "Sensor.update" /\ last_op'.qualified THEN FALSE
                 ELSE requested

----------------------------------------------------------------------------
(* Specifications *)

ObserversInit ==
    /\ ramp_from = [m \in Motors |-> 0]
    /\ ramp_ticks = [m \in Motors |-> 0]
    /\ delay_acc = [m \in Motors |-> -1]
    /\ requested = FALSE
    /\ last_op = [op |-> "construct", m |-> "A", ret |-> 0, qualified |-> FALSE, arg |-> 0]

Init ==
    /\ MotorConstructed
    /\ SensorConstructed("MANUAL")
    /\ ObserversInit

\* observers of a motor call when the ramp is not observed
MotorObserved == ObserveDelay /\ UNCHANGED <<ramp_from, ramp_ticks, requested>>

\* observers of a motor call when the ramp is observed
RampObserved == ObserveDelay /\ ObserveRamp /\ UNCHANGED requested

\* observers of a sensor call
SensorObserved == ObserveSensor /\ UNCHANGED <<ramp_from, ramp_ticks, delay_acc>>

\* one motor, driven with the whole range of arguments
Next ==
    \/ Motor_init("A") /\ MotorObserved
    \/ Motor_update("A") /\ MotorObserved
    \/ \E speed \in SpeedInputs : Motor_setSpeed("A", speed) /\ MotorObserved
    \/ \E a \in AccelerationInputs : Motor_setAcceleration("A", a) /\ MotorObserved
    \/ Motor_stop("A") /\ MotorObserved
    \/ \E d \in ClockSteps : AdvanceMillis(d) /\ MotorObserved

Spec == Init /\ [][Next]_vars

\* one motor at maximum acceleration, with the ramp observer
NextRamp ==
    \/ Motor_init("A") /\ RampObserved
    \/ Motor_update("A") /\ RampObserved
    \/ \E speed \in RampSpeedInputs : Motor_setSpeed("A", speed) /\ RampObserved
    \/ Motor_setAcceleration("A", MAX_ACCELERATION) /\ RampObserved
    \/ Motor_stop("A") /\ RampObserved
    \/ \E d \in ClockSteps : AdvanceMillis(d) /\ RampObserved

SpecRamp == Init /\ [][NextRamp]_vars

\* two motors polled by the same loop
NextPair ==
    \/ \E m \in Motors : Motor_init(m) /\ MotorObserved
    \/ \E m \in Motors : Motor_update(m) /\ MotorObserved
    \/ \E m \in Motors : \E speed \in PairSpeedInputs :
          Motor_setSpeed(m, speed) /\ MotorObserved
    \/ \E m \in Motors : Motor_setAcceleration(m, MAX_ACCELERATION) /\ MotorObserved
    \/ \E m \in Motors : Motor_stop(m) /\ MotorObserved
    \/ \E d \in ClockSteps : AdvanceMillis(d) /\ MotorObserved

SpecPair == Init /\ [][NextPair]_vars

\* one motor, every acceleration argument, no ramp
NextDelay ==
    \/ Motor_init("A") /\ MotorObserved
    \/ Motor_update("A") /\ MotorObserved
    \/ \E a \in AllAccelerationInputs : Motor_setAcceleration("A", a) /\ MotorObserved

SpecDelay == Init /\ [][NextDelay]_vars

\* the sensor, constructed in either mode
InitSensor ==
    /\ MotorConstructed
    /\ \E mode \in SonarModes : SensorConstructed(mode)
    /\ ObserversInit

NextSensor ==
    \/ \E pulse_time \in PulseInputs : \E d1, d2 \in IntraDelays :
          Sensor_update(pulse_time, d1, d2) /\ SensorObserved
    \/ \E mode \in SonarModes : Sensor_setMode(mode) /\ SensorObserved
    \/ Sensor_startMeasurement /\ SensorObserved
    \/ Sensor_getDistance /\ SensorObserved
    \/ \E d \in MicroSteps : AdvanceMicros(d) /\ SensorObserved

SpecSensor == InitSensor /\ [][NextSensor]_vars

-----------------------------------------------------------------------------
(* lcd_display.h: formatNumber *)

\* a String is modelled as the sequence of its characters

\* int16_t num
NumInputs == -32768 .. 32767

\* uint8_t max_digits, over the range the display code uses
DigitInputs == 1 .. 4

\* the characters String(int) produces for the decimal digits 0..9
DigitChar == <<"0", "1", "2", "3", "4", "5", "6", "7", "8", "9">>

RECURSIVE Pow10(_)
\* pow(10, k)
Pow10(k) == IF k = 0 THEN 1 ELSE 10 * Pow10(k - 1)

\* uint16_t limit = pow(10, max_digits) - 1
LimitOf(max_digits) == (Pow10(max_digits) - 1) % 65536

Saturated_none(num, limit) == num

\* constrain(num, -limit, limit), evaluated in int
Saturated(num, limit) == constrain(num, -limit, limit)

RECURSIVE StringOf(_)
\* String(n) for a non-negative int n: its decimal digits, no leading zero
StringOf(n) ==
    IF n < 10 THEN <<DigitChar[n + 1]>>
    ELSE StringOf(n \div 10) \o <<DigitChar[(n % 10) + 1]>>

\* String sign = (num > 0) ? "+" : (num < 0) ? "-" : " "
SignOf(num) == IF num > 0 THEN "+" ELSE IF num < 0 THEN "-" ELSE " "

RECURSIVE PadLeft(_, _)
\* while (str.length() < width) str = " " + str
PadLeft(str, width) ==
    IF Len(str) < width THEN PadLeft(<<" ">> \o str, width) ELSE str

formatNumber(num, max_digits, show_sign) ==
    LET limit == LimitOf(max_digits)
        str == StringOf(Abs(Saturated(num, limit)))
        signed == IF show_sign THEN <<SignOf(num)>> \o str ELSE str
    IN  PadLeft(signed, max_digits + (IF show_sign THEN 1 ELSE 0))

\* a call of formatNumber with the arguments drawn by InitFormat
FormatNumber ==
    /\ last_op.op = "call formatNumber"
    /\ last_op' = [last_op EXCEPT
                     !.op = "formatNumber",
                     !.ret = formatNumber(last_op.arg[1], last_op.arg[2], last_op.arg[3])]
    /\ UNCHANGED <<ramp_from, ramp_ticks, delay_acc, requested>>
    /\ UNCHANGED motorVars
    /\ UNCHANGED sensorVars

\* the arguments of one call, over every int16 value, every width and both
\* settings of show_sign
InitFormat ==
    /\ MotorConstructed
    /\ SensorConstructed("MANUAL")
    /\ ramp_from = [m \in Motors |-> 0]
    /\ ramp_ticks = [m \in Motors |-> 0]
    /\ delay_acc = [m \in Motors |-> -1]
    /\ requested = FALSE
    /\ \E num \in NumInputs : \E max_digits \in DigitInputs : \E show_sign \in BOOLEAN :
           last_op = [op |-> "call formatNumber", m |-> "L", ret |-> <<>>,
                      qualified |-> FALSE, arg |-> <<num, max_digits, show_sign>>]

NextFormat == FormatNumber

SpecFormat == InitFormat /\ [][NextFormat]_vars

----------------------------------------------------------------------------
(* Properties *)

SpeedInRange == \A m \in Motors : current_speed_[m] \in MIN_SPEED .. MAX_SPEED

UpdateStepsByOne ==
    \A m \in Motors :
        (last_op'.op = "update" /\ last_op'.m = m) =>
            /\ Abs(current_speed_'[m] - current_speed_[m]) <= 1
            /\ ~last_op'.qualified => current_speed_'[m] = current_speed_[m]

\* C1: in every sequence of init, setSpeed, setAcceleration and update calls
\* current_speed_ stays within [-100,100], and one update() changes it by at
\* most 1, by 0 when the gate interval has not elapsed.
C1_SpeedRangeAndStep == []SpeedInRange /\ [][UpdateStepsByOne]_vars

C1_Witness ==
    /\ last_op.op = "update" /\ last_op.qualified
    /\ setpoint_speed_["A"] = MAX_SPEED
    /\ current_speed_["A"] = MAX_SPEED

\* C2: right after stop() returns, current_speed_ and setpoint_speed_ are 0,
\* isUpdating() is false and the value returned is false.
C2_StopClearsEverything ==
    \A m \in Motors :
        (last_op.op = "stop" /\ last_op.m = m) =>
            /\ current_speed_[m] = 0
            /\ setpoint_speed_[m] = 0
            /\ ~isUpdating(m)
            /\ last_op.ret = 0

\* C3: the delay computed by update() does not increase with the
\* acceleration: it is the smallest configured delay at acceleration 100, the
\* largest at acceleration 0, and no acceleration above the one just used
\* gives a longer delay.
C3_DelayMonotone ==
    \A m \in Motors :
        delay_acc[m] # -1 =>
            /\ delay_acc[m] = MAX_ACCELERATION =>
                   update_delay_[m] = Min2(MIN_UPDATE_DELAY, MAX_UPDATE_DELAY)
            /\ delay_acc[m] = MIN_ACCELERATION =>
                   update_delay_[m] = Max2(MIN_UPDATE_DELAY, MAX_UPDATE_DELAY)
            /\ \A b \in delay_acc[m] .. MAX_ACCELERATION :
                   UpdateDelayOf(b) <= update_delay_[m]
            /\ \A b \in MIN_ACCELERATION .. delay_acc[m] :
                   UpdateDelayOf(b) >= update_delay_[m]

C3_Witness ==
    /\ last_op.op = "update"
    /\ delay_acc["A"] = 37
    /\ update_delay_["A"] < MIN_UPDATE_DELAY
    /\ update_delay_["A"] > MAX_UPDATE_DELAY

\* C4: with the setpoint held at s since current_speed_ was c, current_speed_
\* equals s once |s - c| qualifying ticks have happened and on every later
\* tick, and differs from s before.
C4_RampLength ==
    \A m \in Motors :
        LET d == Abs(setpoint_speed_[m] - ramp_from[m])
        IN  /\ ramp_ticks[m] >= d => current_speed_[m] = setpoint_speed_[m]
            /\ ramp_ticks[m] < d => current_speed_[m] # setpoint_speed_[m]

C4_Witness ==
    /\ ramp_from["A"] = 0
    /\ setpoint_speed_["A"] = 50
    /\ acceleration_["A"] = MAX_ACCELERATION
    /\ ramp_ticks["A"] = 50
    /\ current_speed_["A"] = 50

\* C5: after every qualifying update() tick, isUpdating() is true exactly
\* when current_speed_ differs from setpoint_speed_.
C5_UpdatingIffOffSetpoint ==
    \A m \in Motors :
        (last_op.op = "update" /\ last_op.m = m /\ last_op.qualified) =>
            (isUpdating(m) <=> current_speed_[m] # setpoint_speed_[m])

\* C6: after any update() call returns, the two duty cycles agree with
\* current_speed_: forward = max(current_speed_, 0), backward =
\* max(-current_speed_, 0).
C6_DutyMatchesSpeed ==
    \A m \in Motors :
        (last_op.op = "update" /\ last_op.m = m) =>
            /\ forward_duty[m] = Max2(current_speed_[m], 0)
            /\ backward_duty[m] = Max2(-current_speed_[m], 0)

\* C7: getDistance() returns a value within [0,400], whatever pulse
\* durations were measured.
C7_DistanceInRange ==
    last_op.op = "Sensor.getDistance" =>
        last_op.ret \in MIN_DISTANCE .. MAX_DISTANCE

C7_Witness ==
    /\ last_op.op = "Sensor.getDistance"
    /\ last_op.ret = MAX_DISTANCE
    /\ distance_ = MAX_DISTANCE

\* C8: in MANUAL mode an update() that no startMeasurement() preceded since
\* the last completed measurement performs no trigger/measure cycle: distance_
\* is unchanged, no pin is written and isUpdating() is false afterwards.
C8_NoRequestNoCycle ==
    [][(mode_ = "MANUAL" /\ ~requested /\ last_op'.op = "Sensor.update") =>
           /\ distance_' = distance_
           /\ io' = <<>>
           /\ ~sensor_status_']_vars

\* C9: whenever the mode is AUTOMATIC, status_ is false.
C9_AutomaticNeverPending == mode_ = "AUTOMATIC" => ~Sensor_isUpdating

\* C10: a qualifying update() of one motor never changes whether the next
\* update() of another motor qualifies.
C10_IndependentGates ==
    [][\A a, b \in Motors :
           (a # b /\ last_op'.op = "update" /\ last_op'.m = a /\ last_op'.qualified) =>
               (Qualifies(b)' <=> Qualifies(b))]_vars

\* C11: the ramp never overshoots: every update() leaves the distance
\* |setpoint_speed_ - current_speed_| unchanged or smaller by exactly 1, and
\* the sign of setpoint_speed_ - current_speed_ never flips.
C11_NoOvershoot ==
    [][\A m \in Motors :
           (last_op'.op = "update" /\ last_op'.m = m) =>
               LET before == setpoint_speed_[m] - current_speed_[m]
                   after == setpoint_speed_'[m] - current_speed_'[m]
               IN  /\ Abs(after) \in {Abs(before), Abs(before) - 1}
                   /\ ~(before > 0 /\ after < 0)
                   /\ ~(before < 0 /\ after > 0)]_vars

C11_Witness ==
    /\ last_op.op = "update" /\ last_op.qualified
    /\ isUpdating("A")
    /\ setpoint_speed_["A"] = 3
    /\ current_speed_["A"] = 3

\* C12: on every qualifying update() tick the duties are written from the
\* speed after the step: backward = |current_speed_| and forward = 0 when it
\* is negative, forward = current_speed_ and backward = 0 otherwise, also when
\* current_speed_ already equals setpoint_speed_.
C12_DutyWrittenOnTick ==
    \A m \in Motors :
        (last_op.op = "update" /\ last_op.m = m /\ last_op.qualified) =>
            IF current_speed_[m] < 0
            THEN forward_duty[m] = 0 /\ backward_duty[m] = -current_speed_[m]
            ELSE forward_duty[m] = current_speed_[m] /\ backward_duty[m] = 0

C12_Witness ==
    /\ last_op.op = "update" /\ last_op.qualified
    /\ ~isUpdating("A")
    /\ current_speed_["A"] = -2
    /\ setpoint_speed_["A"] = -2
    /\ forward_duty["A"] = 0
    /\ backward_duty["A"] = 2

\* C13: setSpeed(v) stores v clamped to [-100,100] in setpoint_speed_ and
\* leaves current_speed_, status_, acceleration_, the gate timer and both duty
\* cycles unchanged; setAcceleration(a) stores a clamped to [0,100] and leaves
\* both speeds and both duty cycles unchanged.
C13_SetterFrames ==
    [][\A m \in Motors :
           /\ (last_op'.op = "setSpeed" /\ last_op'.m = m) =>
                  /\ setpoint_speed_'[m] =
                         IF last_op'.arg < -100 THEN -100
                         ELSE IF last_op'.arg > 100 THEN 100 ELSE last_op'.arg
                  /\ UNCHANGED <<current_speed_, status_, acceleration_, elapsed_ms,
                                 forward_duty, backward_duty>>
           /\ (last_op'.op = "setAcceleration" /\ last_op'.m = m) =>
                  /\ acceleration_'[m] =
                         IF last_op'.arg > 100 THEN 100 ELSE last_op'.arg
                  /\ UNCHANGED <<current_speed_, setpoint_speed_,
                                 forward_duty, backward_duty>>]_vars

C13_Witness ==
    /\ last_op.op = "setSpeed"
    /\ last_op.arg = 127
    /\ setpoint_speed_["A"] = 100
    /\ current_speed_["A"] = -2
    /\ backward_duty["A"] = 2
    /\ isUpdating("A")

\* C14: update() is idempotent at a fixed clock reading: an update() that
\* directly follows an update() of the same motor, with no clock advance and
\* no other call in between, changes nothing, and an update() whose elapsed
\* time does not exceed the delay changes nothing but update_delay_.
C14_UpdateIdempotent ==
    [][\A m \in Motors :
           (last_op'.op = "update" /\ last_op'.m = m) =>
               /\ (last_op.op = "update" /\ last_op.m = m) =>
                      UNCHANGED motorVars
               /\ ~(elapsed_ms > update_delay_'[m]) =>
                      UNCHANGED <<enabled_, status_, current_speed_, setpoint_speed_,
                                  acceleration_, forward_duty, backward_duty,
                                  elapsed_ms>>]_vars

C14_Witness ==
    /\ last_op.op = "update" /\ ~last_op.qualified
    /\ elapsed_ms = 0
    /\ isUpdating("A")
    /\ current_speed_["A"] = 1
    /\ setpoint_speed_["A"] = 3

IsEcho(event) == event = "ECHO"

\* the number of echo measurements among the pin operations of a call
Echoes(events) == Len(SelectSeq(events, IsEcho))

\* C15: update() of the sensor performs exactly one trigger/measure cycle if
\* the mode is AUTOMATIC or status_ is true and none otherwise; in MANUAL mode
\* status_ is false after every update(), so the update() that follows an
\* update() measures nothing.
C15_OneCyclePerRequest ==
    [][last_op'.op = "Sensor.update" =>
           /\ IF mode_ = "AUTOMATIC" \/ sensor_status_
              THEN Echoes(io') = 1
              ELSE io' = <<>> /\ distance_' = distance_
           /\ mode_ = "MANUAL" => ~sensor_status_'
           /\ (mode_ = "MANUAL" /\ last_op.op = "Sensor.update") => io' = <<>>]_vars

C15_Witness ==
    /\ last_op.op = "Sensor.update" /\ last_op.qualified
    /\ mode_ = "MANUAL"
    /\ ~sensor_status_
    /\ Echoes(io) = 1
    /\ distance_ = 500

\* C16: startMeasurement() sets status_ to true only when the mode is MANUAL;
\* called in AUTOMATIC mode it leaves status_, mode_ and distance_ unchanged.
C16_StartOnlyInManual ==
    [][last_op'.op = "Sensor.startMeasurement" =>
           IF mode_ = "MANUAL"
           THEN sensor_status_' /\ UNCHANGED <<mode_, distance_>>
           ELSE UNCHANGED <<sensor_status_, mode_, distance_>>]_vars

C16_Witness ==
    /\ last_op.op = "Sensor.startMeasurement"
    /\ mode_ = "AUTOMATIC"
    /\ ~sensor_status_
    /\ distance_ = 500

\* C17: in every trigger/measure cycle the echo is measured only after the
\* trigger pin was driven high and then low again, so the trigger pin is LOW
\* when the echo measurement starts and when a measurement has completed.
C17_TriggerPulseBeforeEcho ==
    (last_op.op = "Sensor.update" /\ last_op.qualified) =>
        /\ trigger_level = "LOW"
        /\ \E i, j, k \in DOMAIN io :
               /\ i < j /\ j < k
               /\ io[i] = "HIGH" /\ io[j] = "LOW" /\ io[k] = "ECHO"

C19_DisabledStillRamps ==
    [][\A m \in Motors :
           /\ (last_op'.op = "stop" /\ last_op'.m = m) => ~enabled_'[m]
           /\ ( /\ last_op'.op = "update" /\ last_op'.m = m
                /\ ~enabled_[m]
                /\ elapsed_ms > update_delay_'[m]
                /\ setpoint_speed_[m] # current_speed_[m] ) =>
                  /\ Abs(setpoint_speed_[m] - current_speed_'[m])
                         = Abs(setpoint_speed_[m] - current_speed_[m]) - 1
                  /\ Abs(current_speed_'[m] - current_speed_[m]) = 1
                  /\ forward_duty'[m] + backward_duty'[m] = Abs(current_speed_'[m])
                  /\ ~enabled_'[m]]_vars

C19_Witness ==
    /\ ~enabled_["A"]
    /\ acceleration_["A"] = MAX_ACCELERATION
    /\ last_op.op = "update" /\ last_op.m = "A" /\ last_op.qualified
    /\ setpoint_speed_["A"] = 3
    /\ current_speed_["A"] = 1
    /\ forward_duty["A"] = 1

\* position of a character among the decimal digits, 0 if it is none
DigitIndex(ch) ==
    IF \E i \in 1 .. 10 : DigitChar[i] = ch
    THEN CHOOSE i \in 1 .. 10 : DigitChar[i] = ch
    ELSE 0

RECURSIVE NumberIn(_)
\* the number written by a sequence of decimal digits, -1 if a character of
\* it is not a digit or the sequence is empty
NumberIn(str) ==
    IF str = <<>> THEN -1
    ELSE LET d == DigitIndex(str[Len(str)])
             front == SubSeq(str, 1, Len(str) - 1)
         IN  IF d = 0 THEN -1
             ELSE IF front = <<>> THEN d - 1
             ELSE IF NumberIn(front) = -1 THEN -1
             ELSE 10 * NumberIn(front) + (d - 1)

RECURSIVE Trimmed(_)
\* a string without its leading blanks
Trimmed(str) ==
    IF str # <<>> /\ Head(str) = " " THEN Trimmed(Tail(str)) ELSE str

\* C20: for every int16 num and every max_digits in 1..4, formatNumber returns
\* a string of exactly max_digits + (show_sign ? 1 : 0) characters: blanks,
\* then the sign of num if show_sign, then |num| in decimal saturated to
\* 10^max_digits - 1.
C20_FixedWidthSaturated ==
    last_op.op = "formatNumber" =>
        LET num == last_op.arg[1]
            max_digits == last_op.arg[2]
            show_sign == last_op.arg[3]
            str == last_op.ret
            body == Trimmed(str)
            magnitude == Min2(Abs(num), Pow10(max_digits) - 1)
        IN  /\ Len(str) = max_digits + (IF show_sign THEN 1 ELSE 0)
            /\ IF show_sign /\ num # 0
               THEN /\ Head(body) = (IF num > 0 THEN "+" ELSE "-")
                    /\ NumberIn(Tail(body)) = magnitude
               ELSE NumberIn(body) = magnitude

C20_Witness ==
    /\ last_op.op = "formatNumber"
    /\ last_op.arg = <<-32768, 4, TRUE>>
    /\ last_op.ret = <<"-", "9", "9", "9", "9">>

====
